---- MODULE Spec2Model ----
(***************************************************************************)
(* State-machine model of the signal-to-position backtest engine:          *)
(*   BacktestConfig.__post_init__   (backtest/config.py)                   *)
(*   run_backtest                   (backtest/engine.py)                   *)
(* Floating-point values (signal, thresholds, spread, sizes, dollars) are  *)
(* modelled as integers in a common unit with exact arithmetic; a missing  *)
(* value (NaN) never reaches the loop because dropna() removes its date.   *)
(***************************************************************************)
EXTENDS Integers, Sequences, FiniteSets

\* ---------------------------------------------------------------- bounds
\* Number of raw dates (union of the two indices) a run may contain.
MaxDates == 3
\* Number of dates of a run whose trades are examined.
MaxTradeDates == 4
\* Number of rows of a ledger handed to compute_performance_metrics directly.
MaxLedger == 3

\* ---------------------------------------------------------- input domains
\* Values a BacktestConfig may be constructed with (valid and invalid ones).
EntryThresholds == {-1, 2}
ExitThresholds == {-2, 1, 2}
PositionSizes == {0, 2}
TransactionCosts == {-1, 0, 1}
Dv01Values == {0, 3}
\* max_holding_days: Optional[int]; None is <<>>, the integer n is <<n>>.
None == <<>>
MaxHoldingDays == {None, <<-1>>, <<1>>, <<2>>}
\* Values of the composite signal and of the spread on a date where both exist.
SignalValues == {-3, -2, 0, 1, 2, 3}
SpreadValues == {1, 2}

Configs ==
    [entry_threshold : EntryThresholds,
     exit_threshold : ExitThresholds,
     position_size : PositionSizes,
     transaction_cost_bps : TransactionCosts,
     max_holding_days : MaxHoldingDays,
     dv01_per_million : Dv01Values]

\* BacktestConfig(): the field defaults, thresholds in units of 0.25.
DefaultConfig ==
    [entry_threshold |-> 6,
     exit_threshold |-> 3,
     position_size |-> 10,
     transaction_cost_bps |-> 1,
     max_holding_days |-> None,
     dv01_per_million |-> 4750]

\* The config parameter before run_backtest resolves config=None.
NoConfig ==
    [entry_threshold |-> 0,
     exit_threshold |-> 0,
     position_size |-> 0,
     transaction_cost_bps |-> 0,
     max_holding_days |-> None,
     dv01_per_million |-> 0]

VARIABLES
    pc,                 \* where the program is
    config_given,       \* FALSE when run_backtest is called with config=None
    config,             \* the BacktestConfig
    signal_index_ok,    \* isinstance(composite_signal.index, DatetimeIndex)
    spread_index_ok,    \* isinstance(spread.index, DatetimeIndex)
    t,                  \* raw dates consumed so far
    current_position,   \* loop-carried state
    days_held,
    entry_spread,
    iter,               \* locals of the latest loop iteration
    positions,          \* list of position records
    pnl_records,        \* list of P&L records
    pnl_df,             \* pnl_records with cumulative_pnl, once built
    metadata,           \* metadata["config"] and metadata["summary"], once built
    metrics,            \* the PerformanceMetrics, once computed
    earlier             \* the result of the previous invocation, if any

vars == <<pc, config_given, config, signal_index_ok, spread_index_ok, t,
          current_position, days_held, entry_spread, iter, positions,
          pnl_records, pnl_df, metadata, metrics, earlier>>

\* ---------------------------------------------------------------- helpers
Abs(x) == IF x < 0 THEN -x ELSE x

Last(s) == s[Len(s)]

\* Mutant: equal thresholds pass the hysteresis check.
ConfigRejectedUnlessEqual(c) ==
    \/ c.entry_threshold < c.exit_threshold
    \/ c.position_size <= 0
    \/ c.transaction_cost_bps < 0

\* BacktestConfig.__post_init__: the three checks that raise ValueError.
ConfigRejected(c) ==
    \/ c.entry_threshold <= c.exit_threshold
    \/ c.position_size <= 0
    \/ c.transaction_cost_bps < 0

\* Mutant: the scaling constant is forgotten.
TransactionCostUnscaled(c) == c.transaction_cost_bps * c.position_size

\* config.transaction_cost_bps * config.position_size * 100
TransactionCost(c) == c.transaction_cost_bps * c.position_size * 100

\* Mutant: a signal equal to the threshold enters.
EntersLongInclusive(signal, c) == signal >= c.entry_threshold

\* signal > config.entry_threshold
EntersLong(signal, c) == signal > c.entry_threshold

\* Mutant: a signal equal to minus the threshold enters short.
EntersShortInclusive(signal, c) == signal <= -c.entry_threshold

\* signal < -config.entry_threshold
EntersShort(signal, c) == signal < -c.entry_threshold

\* Mutant: a signal equal to the exit threshold in magnitude exits.
ExitSignalInclusive(signal, c) == Abs(signal) <= c.exit_threshold

\* Mutant: the signal is compared without taking its magnitude.
ExitSignalSigned(signal, c) == signal < c.exit_threshold

\* exit_signal = abs(signal) < config.exit_threshold
ExitSignal(signal, c) == Abs(signal) < c.exit_threshold

\* Mutant: the limit itself is still allowed.
ExitTimeStrict(days, c) ==
    /\ c.max_holding_days # None
    /\ days > c.max_holding_days[1]

\* exit_time = max_holding_days is not None and days_held >= max_holding_days
ExitTime(days, c) ==
    /\ c.max_holding_days # None
    /\ days >= c.max_holding_days[1]

\* "if current_position == 0" branch: not in position, check entry conditions.
\* s is the carried state [current_position, days_held, entry_spread]; the
\* result is the new carried state and the two costs of this iteration.
FlatBranch(s, signal, spread_level, c) ==
    IF EntersLong(signal, c)
    THEN [current_position |-> 1, days_held |-> 0,
          entry_spread |-> spread_level,
          entry_cost |-> TransactionCost(c), exit_cost |-> 0]
    ELSE IF EntersShort(signal, c)
    THEN [current_position |-> -1, days_held |-> 0,
          entry_spread |-> spread_level,
          entry_cost |-> TransactionCost(c), exit_cost |-> 0]
    ELSE [current_position |-> s.current_position, days_held |-> s.days_held,
          entry_spread |-> s.entry_spread,
          entry_cost |-> 0, exit_cost |-> 0]

\* Mutant: an open position is reversed when the signal crosses the opposite
\* entry threshold.
HeldBranchReversing(s, signal, spread_level, c) ==
    IF s.current_position = 1 /\ EntersShort(signal, c)
    THEN [current_position |-> -1, days_held |-> 0,
          entry_spread |-> spread_level,
          entry_cost |-> TransactionCost(c), exit_cost |-> 0]
    ELSE IF s.current_position = -1 /\ EntersLong(signal, c)
    THEN [current_position |-> 1, days_held |-> 0,
          entry_spread |-> spread_level,
          entry_cost |-> TransactionCost(c), exit_cost |-> 0]
    ELSE IF ExitSignal(signal, c) \/ ExitTime(s.days_held + 1, c)
    THEN [current_position |-> 0, days_held |-> 0,
          entry_spread |-> s.entry_spread,
          entry_cost |-> 0, exit_cost |-> TransactionCost(c)]
    ELSE [current_position |-> s.current_position,
          days_held |-> s.days_held + 1,
          entry_spread |-> s.entry_spread,
          entry_cost |-> 0, exit_cost |-> 0]

\* Mutant: after an exit the entry conditions are evaluated on the same date.
HeldBranchReentering(s, signal, spread_level, c) ==
    IF ExitSignal(signal, c) \/ ExitTime(s.days_held + 1, c)
    THEN LET e == FlatBranch([current_position |-> 0, days_held |-> 0,
                              entry_spread |-> s.entry_spread],
                             signal, spread_level, c)
         IN [current_position |-> e.current_position,
             days_held |-> e.days_held,
             entry_spread |-> e.entry_spread,
             entry_cost |-> e.entry_cost,
             exit_cost |-> TransactionCost(c)]
    ELSE [current_position |-> s.current_position,
          days_held |-> s.days_held + 1,
          entry_spread |-> s.entry_spread,
          entry_cost |-> 0, exit_cost |-> 0]

\* Mutant: an exit leaves the day counter where it was.
HeldBranchKeepingDays(s, signal, spread_level, c) ==
    IF ExitSignal(signal, c) \/ ExitTime(s.days_held + 1, c)
    THEN [current_position |-> 0, days_held |-> s.days_held + 1,
          entry_spread |-> s.entry_spread,
          entry_cost |-> 0, exit_cost |-> TransactionCost(c)]
    ELSE [current_position |-> s.current_position,
          days_held |-> s.days_held + 1,
          entry_spread |-> s.entry_spread,
          entry_cost |-> 0, exit_cost |-> 0]

\* Mutant: closing a position costs nothing.
HeldBranchFreeExit(s, signal, spread_level, c) ==
    IF ExitSignal(signal, c) \/ ExitTime(s.days_held + 1, c)
    THEN [current_position |-> 0, days_held |-> 0,
          entry_spread |-> s.entry_spread,
          entry_cost |-> 0, exit_cost |-> 0]
    ELSE [current_position |-> s.current_position,
          days_held |-> s.days_held + 1,
          entry_spread |-> s.entry_spread,
          entry_cost |-> 0, exit_cost |-> 0]

\* "else" branch: in position, check exit conditions.
HeldBranch(s, signal, spread_level, c) ==
    IF ExitSignal(signal, c) \/ ExitTime(s.days_held + 1, c)
    THEN [current_position |-> 0, days_held |-> 0,
          entry_spread |-> s.entry_spread,
          entry_cost |-> 0, exit_cost |-> TransactionCost(c)]
    ELSE [current_position |-> s.current_position,
          days_held |-> s.days_held + 1,
          entry_spread |-> s.entry_spread,
          entry_cost |-> 0, exit_cost |-> 0]

\* The if/else block that decides the position for one date.
Transition(s, signal, spread_level, c) ==
    IF s.current_position = 0
    THEN FlatBranch(s, signal, spread_level, c)
    ELSE HeldBranch(s, signal, spread_level, c)

\* Mutant: the P&L is computed from the position after the update.
PnlBasisAfterUpdate(before, after) ==
    [position |-> after.current_position,
     entry_spread |-> before.entry_spread]

\* position_before_update / entry_spread_before_update: the position and the
\* entry spread the date's P&L is computed from, stored before the update.
PnlBasis(before, after) ==
    [position |-> before.current_position,
     entry_spread |-> before.entry_spread]

\* Mutant: the sign of the position is dropped from the product.
SpreadPnlWrongSign(position, entry_spread_before, spread_level, c) ==
    IF position # 0
    THEN position
         * (spread_level - entry_spread_before)
         * c.dv01_per_million
         * c.position_size
    ELSE 0

\* P&L of the position held entering the date.
SpreadPnl(position_before_update, entry_spread_before_update, spread_level, c) ==
    IF position_before_update # 0
    THEN (-position_before_update)
         * (spread_level - entry_spread_before_update)
         * c.dv01_per_million
         * c.position_size
    ELSE 0

\* net_pnl = spread_pnl - total_cost
NetPnl(spread_pnl, total_cost) == spread_pnl - total_cost

\* Mutant: the running total is taken over spread_pnl, before costs.
RECURSIVE CumSumBeforeCosts(_)
CumSumBeforeCosts(recs) ==
    IF Len(recs) = 0 THEN <<>>
    ELSE LET front == CumSumBeforeCosts(SubSeq(recs, 1, Len(recs) - 1))
             before == IF Len(front) = 0 THEN 0 ELSE Last(front)
         IN Append(front, before + Last(recs).spread_pnl)

\* pnl_df["net_pnl"].cumsum(): element k is the sum of the first k net_pnl.
RECURSIVE CumSum(_)
CumSum(recs) ==
    IF Len(recs) = 0 THEN <<>>
    ELSE LET front == CumSum(SubSeq(recs, 1, Len(recs) - 1))
             before == IF Len(front) = 0 THEN 0 ELSE Last(front)
         IN Append(front, before + Last(recs).net_pnl)

\* Mutant: every change of position counts as a trade, exits included.
CountPositionChanges(pos) ==
    Cardinality({k \in 1..Len(pos) :
        (IF k = 1 THEN 0 ELSE pos[k - 1].position) # pos[k].position})

\* position_entries = (shift(1).fillna(0) == 0) & (position != 0), summed.
CountEntries(pos) ==
    Cardinality({k \in 1..Len(pos) :
        /\ (IF k = 1 THEN 0 ELSE pos[k - 1].position) = 0
        /\ pos[k].position # 0})

NoIter == [entry_cost |-> 0, exit_cost |-> 0,
           position_before_update |-> 0, entry_spread_before_update |-> 0]

\* metadata["config"]: the echo of the configuration the run used.
ConfigEcho(c) ==
    [entry_threshold |-> c.entry_threshold,
     exit_threshold |-> c.exit_threshold,
     position_size |-> c.position_size,
     transaction_cost_bps |-> c.transaction_cost_bps,
     max_holding_days |-> c.max_holding_days,
     dv01_per_million |-> c.dv01_per_million]

\* avg_pnl_per_trade = total_pnl / n_trades if n_trades > 0 else 0.0, kept as
\* the exact fraction num / den.
AvgPnlPerTrade(total_pnl, n_trades) ==
    IF n_trades > 0
    THEN [num |-> total_pnl, den |-> n_trades]
    ELSE [num |-> 0, den |-> 1]

NoMetadata == [config |-> NoConfig,
               start_date |-> 0, end_date |-> 0, total_days |-> 0,
               n_trades |-> 0, total_pnl |-> 0,
               avg_pnl_per_trade |-> [num |-> 0, den |-> 1]]

\* ------------------------------------------ compute_performance_metrics
\* A float quotient n / d, kept exact as the pair (num, den), den > 0.
Frac(n, d) == [num |-> n, den |-> d]

RECURSIVE SeqSum(_)
SeqSum(q) == IF Len(q) = 0 THEN 0 ELSE SeqSum(SubSeq(q, 1, Len(q) - 1)) + Last(q)

\* The elements of q that are > 0 (trade_pnls_array[trade_pnls_array > 0]).
RECURSIVE Winning(_)
Winning(q) ==
    IF Len(q) = 0 THEN <<>>
    ELSE LET front == Winning(SubSeq(q, 1, Len(q) - 1))
         IN IF Last(q) > 0 THEN Append(front, Last(q)) ELSE front

\* The elements of q that are < 0 (trade_pnls_array[trade_pnls_array < 0]).
RECURSIVE Losing(_)
Losing(q) ==
    IF Len(q) = 0 THEN <<>>
    ELSE LET front == Losing(SubSeq(q, 1, Len(q) - 1))
         IN IF Last(q) < 0 THEN Append(front, Last(q)) ELSE front

\* annualized_return = total_return / n_years if n_years > 0 else 0.0,
\* with n_years = n_days / 252.0.
AnnualizedReturn(total_return, n_days) ==
    IF n_days > 0 THEN Frac(total_return * 252, n_days) ELSE Frac(0, 1)

\* Mutant: the drawdown is reported as a magnitude, peak minus value.
MaxDrawdownMagnitude(pnl) ==
    LET running_max(k) ==
            CHOOSE m \in {pnl[j].cumulative_pnl : j \in 1..k} :
                \A j \in 1..k : pnl[j].cumulative_pnl <= m
        drawdown == {running_max(k) - pnl[k].cumulative_pnl : k \in 1..Len(pnl)}
    IN CHOOSE d \in drawdown : \A x \in drawdown : d >= x

\* max_drawdown = (cum_pnl - cum_pnl.expanding().max()).min()
MaxDrawdown(pnl) ==
    LET running_max(k) ==
            CHOOSE m \in {pnl[j].cumulative_pnl : j \in 1..k} :
                \A j \in 1..k : pnl[j].cumulative_pnl <= m
        drawdown == {pnl[k].cumulative_pnl - running_max(k) : k \in 1..Len(pnl)}
    IN CHOOSE d \in drawdown : \A x \in drawdown : d <= x

\* calmar_ratio = annualized_return / abs(max_drawdown) if max_drawdown < 0
CalmarRatio(annualized_return, max_drawdown) ==
    IF max_drawdown < 0
    THEN Frac(annualized_return.num, annualized_return.den * Abs(max_drawdown))
    ELSE Frac(0, 1)

\* Mutant: n_trades is the sum of position_change, exits included.
MetricsTradeCountChanges(pos) ==
    Cardinality({k \in 1..Len(pos) :
        pos[k].position # (IF k = 1 THEN 0 ELSE pos[k - 1].position)})

\* n_trades of the metrics: prev_position = position.shift(1).fillna(0),
\* position_entries = (prev_position == 0) & (position != 0), summed.
MetricsTradeCount(pos) ==
    Cardinality({k \in 1..Len(pos) :
        LET prev_position == IF k = 1 THEN 0 ELSE pos[k - 1].position
        IN prev_position = 0 /\ pos[k].position # 0})

\* The loop over pnl_df.iterrows() after its first k rows: the finished
\* trades and the P&L being accumulated.
RECURSIVE TradeLoop(_, _, _)
TradeLoop(pnl, pos, k) ==
    IF k = 0 THEN [trade_pnls |-> <<>>, current_trade_pnl |-> 0]
    ELSE LET before == TradeLoop(pnl, pos, k - 1)
             prev_position == IF k = 1 THEN 0 ELSE pos[k - 1].position
             is_change == pos[k].position # prev_position
             finalize == is_change /\ before.current_trade_pnl # 0
             trades == IF finalize
                       THEN Append(before.trade_pnls, before.current_trade_pnl)
                       ELSE before.trade_pnls
             carried == IF finalize THEN 0 ELSE before.current_trade_pnl
         IN [trade_pnls |-> trades,
             current_trade_pnl |->
                 IF pos[k].position # 0
                 THEN carried + pnl[k].net_pnl
                 ELSE carried]

\* trade_pnls after the loop and the "last position is still open" step.
TradePnls(pnl, pos) ==
    LET r == TradeLoop(pnl, pos, Len(pnl))
    IN IF r.current_trade_pnl # 0
       THEN Append(r.trade_pnls, r.current_trade_pnl)
       ELSE r.trade_pnls

\* hit_rate = len(winning_trades) / len(trade_pnls_array), 0.0 without trades.
HitRate(trade_pnls) ==
    IF Len(trade_pnls) > 0
    THEN Frac(Len(Winning(trade_pnls)), Len(trade_pnls))
    ELSE Frac(0, 1)

\* avg_win / avg_loss: the mean of the selected trades, 0.0 when there is none.
MeanOrZero(q) == IF Len(q) > 0 THEN Frac(SeqSum(q), Len(q)) ELSE Frac(0, 1)

\* win_loss_ratio = abs(avg_win / avg_loss) if avg_loss < 0 else 0.0
WinLossRatio(avg_win, avg_loss) ==
    IF avg_loss.num < 0
    THEN Frac(Abs(avg_win.num * avg_loss.den), Abs(avg_win.den * avg_loss.num))
    ELSE Frac(0, 1)

\* days_held of the rows with position != 0, in row order.
RECURSIVE HoldingPeriods(_)
HoldingPeriods(pos) ==
    IF Len(pos) = 0 THEN <<>>
    ELSE LET front == HoldingPeriods(SubSeq(pos, 1, Len(pos) - 1))
         IN IF Last(pos).position # 0
            THEN Append(front, Last(pos).days_held)
            ELSE front

\* The PerformanceMetrics record.  sharpe_ratio, sortino_ratio and
\* annualized_volatility need a square root and are left out; trade_pnls is
\* the function's local list.
PerformanceMetrics(pnl, pos) ==
    LET total_return == Last(pnl).cumulative_pnl
        annualized_return == AnnualizedReturn(total_return, Len(pnl))
        max_drawdown == MaxDrawdown(pnl)
        trade_pnls == TradePnls(pnl, pos)
        avg_win == MeanOrZero(Winning(trade_pnls))
        avg_loss == MeanOrZero(Losing(trade_pnls))
    IN [max_drawdown |-> max_drawdown,
        calmar_ratio |-> CalmarRatio(annualized_return, max_drawdown),
        total_return |-> total_return,
        annualized_return |-> annualized_return,
        trade_pnls |-> trade_pnls,
        hit_rate |-> HitRate(trade_pnls),
        avg_win |-> avg_win,
        avg_loss |-> avg_loss,
        win_loss_ratio |-> WinLossRatio(avg_win, avg_loss),
        n_trades |-> MetricsTradeCount(pos),
        avg_holding_days |-> MeanOrZero(HoldingPeriods(pos))]

\* The PerformanceMetrics fields before compute_performance_metrics has run.
NoMetrics ==
    [max_drawdown |-> 0, calmar_ratio |-> Frac(0, 1), total_return |-> 0,
     annualized_return |-> Frac(0, 1), trade_pnls |-> <<>>,
     hit_rate |-> Frac(0, 1), avg_win |-> Frac(0, 1), avg_loss |-> Frac(0, 1),
     win_loss_ratio |-> Frac(0, 1), n_trades |-> 0,
     avg_holding_days |-> Frac(0, 1)]

\* ------------------------------------------------------------------- Init
\* Nothing has run yet: "Initialize tracking" and the empty outputs.
FreshRun ==
    /\ pc = "construct"
    /\ t = 0
    /\ current_position = 0
    /\ days_held = 0
    /\ entry_spread = 0
    /\ iter = NoIter
    /\ positions = <<>>
    /\ pnl_records = <<>>
    /\ pnl_df = <<>>
    /\ metadata = NoMetadata
    /\ metrics = NoMetrics
    /\ earlier = <<>>

Init ==
    /\ FreshRun
    /\ \/ config_given = TRUE /\ config \in Configs
       \/ config_given = FALSE /\ config = NoConfig
    /\ signal_index_ok \in BOOLEAN
    /\ spread_index_ok \in BOOLEAN

\* ---------------------------------------------------------------- actions
\* BacktestConfig(...) raises in __post_init__.
ConfigError ==
    /\ pc = "construct"
    /\ config_given
    /\ ConfigRejected(config)
    /\ pc' = "ConfigError"
    /\ UNCHANGED <<earlier, config_given, metrics, config, signal_index_ok, spread_index_ok, t, current_position,
                   days_held, entry_spread, iter, positions, pnl_records,
                   pnl_df, metadata>>

\* BacktestConfig(...) is constructed and passed to run_backtest.
ConfigAccepted ==
    /\ pc = "construct"
    /\ config_given
    /\ ~ConfigRejected(config)
    /\ pc' = "validate"
    /\ UNCHANGED <<earlier, config_given, metrics, config, signal_index_ok, spread_index_ok, t, current_position,
                   days_held, entry_spread, iter, positions, pnl_records,
                   pnl_df, metadata>>

\* run_backtest(signal, spread) without a config: "if config is None:
\* config = BacktestConfig()".
UseDefaultConfig ==
    /\ pc = "construct"
    /\ ~config_given
    /\ config' = DefaultConfig
    /\ pc' = "validate"
    /\ UNCHANGED <<earlier, config_given, metrics, signal_index_ok, spread_index_ok, t,
                   current_position, days_held, entry_spread, iter, positions,
                   pnl_records, pnl_df, metadata>>

\* Mutant: the spread index is checked first.
InvalidInputSpreadFirst ==
    /\ pc = "validate"
    /\ ~(signal_index_ok /\ spread_index_ok)
    /\ pc' = IF ~spread_index_ok THEN "ValueError_spread"
             ELSE "ValueError_composite_signal"
    /\ UNCHANGED <<earlier, config_given, metrics, config, signal_index_ok,
                   spread_index_ok, t, current_position, days_held,
                   entry_spread, iter, positions, pnl_records, pnl_df,
                   metadata>>

\* run_backtest: the two index checks, composite_signal first.
InvalidInput ==
    /\ pc = "validate"
    /\ ~(signal_index_ok /\ spread_index_ok)
    /\ pc' = IF ~signal_index_ok THEN "ValueError_composite_signal"
             ELSE "ValueError_spread"
    /\ UNCHANGED <<earlier, config_given, metrics, config, signal_index_ok, spread_index_ok, t, current_position,
                   days_held, entry_spread, iter, positions, pnl_records,
                   pnl_df, metadata>>

InputsValid ==
    /\ pc = "validate"
    /\ signal_index_ok /\ spread_index_ok
    /\ pc' = "iterate"
    /\ UNCHANGED <<earlier, config_given, metrics, config, signal_index_ok, spread_index_ok, t, current_position,
                   days_held, entry_spread, iter, positions, pnl_records,
                   pnl_df, metadata>>

\* Mutant: a date with a missing value still counts as a day of holding.
DropDateCountingDay ==
    /\ pc = "iterate"
    /\ t < MaxDates
    /\ t' = t + 1
    /\ days_held' = IF current_position # 0 THEN days_held + 1 ELSE days_held
    /\ UNCHANGED <<earlier, pc, config_given, metrics, config,
                   signal_index_ok, spread_index_ok, current_position,
                   entry_spread, iter, positions, pnl_records, pnl_df,
                   metadata>>

\* A raw date on which the signal or the spread is missing: dropna() removes it.
DropDate ==
    /\ pc = "iterate"
    /\ t < MaxDates
    /\ t' = t + 1
    /\ UNCHANGED <<earlier, pc, config_given, metrics, config, signal_index_ok, spread_index_ok, current_position,
                   days_held, entry_spread, iter, positions, pnl_records,
                   pnl_df, metadata>>

\* The loop body for one aligned row (signal, spread_level).
ProcessRow(signal, spread_level) ==
    /\ pc = "iterate"
    /\  LET date == t + 1
            s == [current_position |-> current_position,
                  days_held |-> days_held,
                  entry_spread |-> entry_spread]
            n == Transition(s, signal, spread_level, config)
            position_before_update == PnlBasis(s, n).position
            entry_spread_before_update == PnlBasis(s, n).entry_spread
            spread_pnl == SpreadPnl(position_before_update,
                                    entry_spread_before_update,
                                    spread_level, config)
            total_cost == n.entry_cost + n.exit_cost
            net_pnl == NetPnl(spread_pnl, total_cost)
        IN /\ t' = date
           /\ current_position' = n.current_position
           /\ days_held' = n.days_held
           /\ entry_spread' = n.entry_spread
           /\ iter' = [entry_cost |-> n.entry_cost,
                       exit_cost |-> n.exit_cost,
                       position_before_update |-> position_before_update,
                       entry_spread_before_update |-> entry_spread_before_update]
           /\ positions' = Append(positions,
                  [date |-> date, signal |-> signal,
                   position |-> n.current_position,
                   days_held |-> n.days_held, spread |-> spread_level])
           /\ pnl_records' = Append(pnl_records,
                  [date |-> date, spread_pnl |-> spread_pnl,
                   cost |-> total_cost, net_pnl |-> net_pnl])
    /\ UNCHANGED <<earlier, pc, config_given, metrics, config, signal_index_ok,
                   spread_index_ok, pnl_df, metadata>>

\* One iteration of the loop over the aligned rows.
ProcessDate ==
    /\ t < MaxDates
    /\ \E signal \in SignalValues, spread_level \in SpreadValues :
        ProcessRow(signal, spread_level)

\* Mutant: with no aligned row the call returns an empty result.
EmptyDataReturned ==
    /\ pc = "iterate"
    /\ Len(positions) = 0
    /\ pc' = "done"
    /\ UNCHANGED <<earlier, config_given, metrics, config, signal_index_ok,
                   spread_index_ok, t, current_position, days_held,
                   entry_spread, iter, positions, pnl_records, pnl_df,
                   metadata>>

\* len(aligned) == 0: raise ValueError("No valid data after alignment").
EmptyData ==
    /\ pc = "iterate"
    /\ Len(positions) = 0
    /\ pc' = "ValueError_no_valid_data"
    /\ UNCHANGED <<earlier, config_given, metrics, config, signal_index_ok, spread_index_ok, t, current_position,
                   days_held, entry_spread, iter, positions, pnl_records,
                   pnl_df, metadata>>

\* pnl_df: the P&L records with the cumulative_pnl column added.
LedgerFrame(recs) ==
    LET cum == CumSum(recs)
    IN [k \in 1..Len(recs) |->
            [date |-> recs[k].date,
             spread_pnl |-> recs[k].spread_pnl,
             cost |-> recs[k].cost,
             net_pnl |-> recs[k].net_pnl,
             cumulative_pnl |-> cum[k]]]

\* metadata: the echoed config and the summary statistics.
Summary(pos, frame, c) ==
    LET n_trades == CountEntries(pos)
        total_pnl == Last(frame).cumulative_pnl
    IN [config |-> ConfigEcho(c),
        start_date |-> pos[1].date,
        end_date |-> Last(pos).date,
        total_days |-> Len(pos),
        n_trades |-> n_trades,
        total_pnl |-> total_pnl,
        avg_pnl_per_trade |-> AvgPnlPerTrade(total_pnl, n_trades)]

\* Mutant: a position still open after the last row is closed and charged an
\* exit cost on the last date.
FinishForceClose ==
    /\ pc = "iterate"
    /\ Len(positions) > 0
    /\ LET n == Len(pnl_records)
           closing == IF current_position # 0 THEN TransactionCost(config) ELSE 0
           recs == [pnl_records EXCEPT
                       ![n].cost = @ + closing,
                       ![n].net_pnl = @ - closing]
       IN /\ pnl_df' = LedgerFrame(recs)
          /\ metadata' = Summary(positions, LedgerFrame(recs), config)
    /\ pc' = "done"
    /\ UNCHANGED <<earlier, config_given, metrics, config, signal_index_ok,
                   spread_index_ok, t, current_position, days_held,
                   entry_spread, iter, positions, pnl_records>>

\* The rows are exhausted: build the data frames and the summary.
Finish ==
    /\ pc = "iterate"
    /\ Len(positions) > 0
    /\ pnl_df' = LedgerFrame(pnl_records)
    /\ metadata' = Summary(positions, LedgerFrame(pnl_records), config)
    /\ pc' = "done"
    /\ UNCHANGED <<earlier, config_given, metrics, config, signal_index_ok,
                   spread_index_ok, t, current_position, days_held,
                   entry_spread, iter, positions, pnl_records>>

Next ==
    \/ ConfigError
    \/ ConfigAccepted
    \/ UseDefaultConfig
    \/ InvalidInput
    \/ InputsValid
    \/ DropDate
    \/ ProcessDate
    \/ EmptyData
    \/ Finish

Spec == Init /\ [][Next]_vars

\* compute_performance_metrics(result.pnl, result.positions) on the result of
\* a finished run.
ComputeMetrics ==
    /\ pc = "done"
    /\ Len(pnl_df) > 0
    /\ metrics' = PerformanceMetrics(pnl_df, positions)
    /\ pc' = "metrics"
    /\ UNCHANGED <<earlier, config_given, config, signal_index_ok, spread_index_ok, t,
                   current_position, days_held, entry_spread, iter, positions,
                   pnl_records, pnl_df, metadata>>

\* A run of run_backtest followed by compute_performance_metrics on its result.
NextWithMetrics ==
    \/ Next
    \/ ComputeMetrics

SpecMetrics == Init /\ [][NextWithMetrics]_vars

\* ------------------------------------------------ runs with several trades
\* Valid configs with and without transaction costs and a holding limit.
TradeConfigs ==
    [entry_threshold : {2},
     exit_threshold : {1},
     position_size : {2},
     transaction_cost_bps : {0, 1},
     max_holding_days : {None, <<2>>},
     dv01_per_million : {3}]

\* Signals beyond the entry thresholds and inside the exit band.
TradeSignals == {-3, 0, 3}

TradesInit ==
    /\ FreshRun
    /\ config_given = TRUE
    /\ config \in TradeConfigs
    /\ signal_index_ok = TRUE
    /\ spread_index_ok = TRUE

TradesDate ==
    /\ t < MaxTradeDates
    /\ \E signal \in TradeSignals, spread_level \in SpreadValues :
        ProcessRow(signal, spread_level)

TradesNext ==
    \/ ConfigAccepted
    \/ InputsValid
    \/ TradesDate
    \/ Finish
    \/ ComputeMetrics

SpecTrades == TradesInit /\ [][TradesNext]_vars

\* --------------------------- compute_performance_metrics called on its own
\* Rows of a hand-made ledger and position history.
LedgerPnls == {-2, 0, 1}
LedgerRows == [net_pnl : LedgerPnls, position : {-1, 0, 1}, days_held : {0, 1}]
LedgerInputs == UNION {[1..n -> LedgerRows] : n \in 0..MaxLedger}

\* pnl_df and positions_df are given; nothing of run_backtest has run.
LedgerInit ==
    /\ pc = "done"
    /\ config_given = FALSE
    /\ config = NoConfig
    /\ signal_index_ok = TRUE
    /\ spread_index_ok = TRUE
    /\ current_position = 0
    /\ days_held = 0
    /\ entry_spread = 0
    /\ iter = NoIter
    /\ metadata = NoMetadata
    /\ metrics = NoMetrics
    /\ earlier = <<>>
    /\ \E rows \in LedgerInputs :
        /\ t = Len(rows)
        /\ positions = [k \in 1..Len(rows) |->
                [date |-> k, signal |-> 0, position |-> rows[k].position,
                 days_held |-> rows[k].days_held, spread |-> 1]]
        /\ pnl_records = [k \in 1..Len(rows) |->
                [date |-> k, spread_pnl |-> rows[k].net_pnl, cost |-> 0,
                 net_pnl |-> rows[k].net_pnl]]
        /\ pnl_df = LedgerFrame([k \in 1..Len(rows) |->
                [date |-> k, spread_pnl |-> rows[k].net_pnl, cost |-> 0,
                 net_pnl |-> rows[k].net_pnl]])

\* total_return = cum_pnl.iloc[-1] on a frame without rows: IndexError.
MetricsIndexError ==
    /\ pc = "done"
    /\ Len(pnl_df) = 0
    /\ pc' = "IndexError"
    /\ UNCHANGED <<earlier, config_given, metrics, config, signal_index_ok,
                   spread_index_ok, t, current_position, days_held,
                   entry_spread, iter, positions, pnl_records, pnl_df,
                   metadata>>

LedgerNext ==
    \/ ComputeMetrics
    \/ MetricsIndexError

SpecLedger == LedgerInit /\ [][LedgerNext]_vars

\* ------------------------------------------------- two invocations in a row
\* Configs of the repeated call.
TwoRunsConfigs == {c \in Configs : ~ConfigRejected(c) /\ c.dv01_per_million = 3
                       /\ c.transaction_cost_bps = 1}

TwoRunsInit ==
    /\ Init
    /\ config_given => config \in TwoRunsConfigs
    /\ signal_index_ok
    /\ spread_index_ok

\* The first call, with inputs of any kind.
FirstRun ==
    /\ earlier = <<>>
    /\ \/ ConfigAccepted
       \/ UseDefaultConfig
       \/ InputsValid
       \/ DropDate
       \/ ProcessDate
       \/ Finish

\* Mutant: position, days_held and entry_spread survive into the next call.
ReinvokeCarrying ==
    /\ pc = "done"
    /\ earlier = <<>>
    /\ earlier' = <<[positions |-> positions, pnl_df |-> pnl_df, raw_dates |-> t]>>
    /\ pc' = "construct"
    /\ t' = 0
    /\ iter' = NoIter
    /\ positions' = <<>>
    /\ pnl_records' = <<>>
    /\ pnl_df' = <<>>
    /\ metadata' = NoMetadata
    /\ UNCHANGED <<config_given, config, signal_index_ok, spread_index_ok,
                   metrics, current_position, days_held, entry_spread>>

\* run_backtest is called again with the same arguments: every name of the
\* function body is a fresh local, set by "Initialize tracking".
Reinvoke ==
    /\ pc = "done"
    /\ earlier = <<>>
    /\ earlier' = <<[positions |-> positions, pnl_df |-> pnl_df, raw_dates |-> t]>>
    /\ pc' = "construct"
    /\ t' = 0
    /\ current_position' = 0
    /\ days_held' = 0
    /\ entry_spread' = 0
    /\ iter' = NoIter
    /\ positions' = <<>>
    /\ pnl_records' = <<>>
    /\ pnl_df' = <<>>
    /\ metadata' = NoMetadata
    /\ UNCHANGED <<config_given, config, signal_index_ok, spread_index_ok,
                   metrics>>

\* The second call meets the same rows: the dates the first call processed...
ReplayRow ==
    /\ earlier # <<>>
    /\ \E k \in 1..Len(earlier[1].positions) :
        /\ earlier[1].positions[k].date = t + 1
        /\ ProcessRow(earlier[1].positions[k].signal,
                      earlier[1].positions[k].spread)

\* ... and the dates it dropped.
ReplayDrop ==
    /\ earlier # <<>>
    /\ t < earlier[1].raw_dates
    /\ \A k \in 1..Len(earlier[1].positions) :
        earlier[1].positions[k].date # t + 1
    /\ DropDate

ReplayFinish ==
    /\ earlier # <<>>
    /\ t = earlier[1].raw_dates
    /\ Finish

SecondRun ==
    /\ earlier # <<>>
    /\ \/ ConfigAccepted
       \/ UseDefaultConfig
       \/ InputsValid

TwoRunsNext ==
    \/ FirstRun
    \/ Reinvoke
    \/ SecondRun
    \/ ReplayRow
    \/ ReplayDrop
    \/ ReplayFinish

SpecTwoRuns == TwoRunsInit /\ [][TwoRunsNext]_vars

\* ------------------------------------------- scenario: forced exit
\* Signal constant at 2.0 for 30 consecutive dates, entry_threshold 1.5,
\* exit_threshold 0.75, max_holding_days 5 (signal and thresholds in units of
\* 0.25).  The fields the scenario leaves open take several values, and the
\* spread is any constant level.
ForcedExitScenario ==
    [dates |-> 30, signal |-> 8,
     configs |-> [entry_threshold : {6},
                  exit_threshold : {3},
                  position_size : {2, 10},
                  transaction_cost_bps : {0, 1},
                  max_holding_days : {<<5>>},
                  dv01_per_million : Dv01Values]]

ForcedExitInit ==
    /\ FreshRun
    /\ config_given = TRUE
    /\ config \in ForcedExitScenario.configs
    /\ signal_index_ok = TRUE
    /\ spread_index_ok = TRUE

ForcedExitDate ==
    /\ t < ForcedExitScenario.dates
    /\ \E spread_level \in SpreadValues :
        /\ Len(positions) > 0 => spread_level = Last(positions).spread
        /\ ProcessRow(ForcedExitScenario.signal, spread_level)

ForcedExitFinish ==
    /\ t = ForcedExitScenario.dates
    /\ Finish

ForcedExitNext ==
    \/ ConfigAccepted
    \/ InputsValid
    \/ ForcedExitDate
    \/ ForcedExitFinish

SpecForcedExit == ForcedExitInit /\ [][ForcedExitNext]_vars

\* ------------------------------------------- scenario: simple long trade
\* Signal 2.0 for 10 dates then 0.0 for 10 dates, spread constant at 100.0,
\* entry_threshold 1.5, exit_threshold 0.75, position_size 10.0,
\* transaction_cost_bps 1.0, dv01_per_million 4750.0.  max_holding_days, which
\* the scenario leaves open, is None or a limit not reached before day 11.
SimpleLongScenario ==
    [dates |-> 20, long_dates |-> 10, long_signal |-> 8, flat_signal |-> 0,
     spread |-> 100,
     configs |-> [entry_threshold : {6},
                  exit_threshold : {3},
                  position_size : {10},
                  transaction_cost_bps : {1},
                  max_holding_days : {None, <<10>>, <<11>>, <<15>>, <<20>>},
                  dv01_per_million : {4750}]]

SimpleLongInit ==
    /\ FreshRun
    /\ config_given = TRUE
    /\ config \in SimpleLongScenario.configs
    /\ signal_index_ok = TRUE
    /\ spread_index_ok = TRUE

SimpleLongDate ==
    /\ t < SimpleLongScenario.dates
    /\ ProcessRow(IF t + 1 <= SimpleLongScenario.long_dates
                  THEN SimpleLongScenario.long_signal
                  ELSE SimpleLongScenario.flat_signal,
                  SimpleLongScenario.spread)

SimpleLongFinish ==
    /\ t = SimpleLongScenario.dates
    /\ Finish

SimpleLongNext ==
    \/ ConfigAccepted
    \/ InputsValid
    \/ SimpleLongDate
    \/ SimpleLongFinish

SpecSimpleLong == SimpleLongInit /\ [][SimpleLongNext]_vars

\* ------------------------------------------------- reading a run's history
\* The records exist from the first processed date on.
Processed == Len(positions) > 0

\* Position recorded on the date before record k (FLAT before the first date).
PositionEntering(k) == IF k = 1 THEN 0 ELSE positions[k - 1].position

\* days_held recorded on the date before record k.
DaysHeldEntering(k) == IF k = 1 THEN 0 ELSE positions[k - 1].days_held

\* Record k opens a position / closes one.
IsEntry(k) == PositionEntering(k) = 0 /\ positions[k].position # 0
IsExit(k) == PositionEntering(k) # 0 /\ positions[k].position = 0

\* The exit condition of the specification for record k.
ExitConditionAt(k) ==
    \/ Abs(positions[k].signal) < config.exit_threshold
    \/ /\ config.max_holding_days # None
       /\ DaysHeldEntering(k) + 1 >= config.max_holding_days[1]

\* transaction_cost_bps * position_size * 100, written out for the claims.
CostFormula == config.transaction_cost_bps * config.position_size * 100

C2_ExitRule ==
    \A k \in 1..Len(positions) :
        PositionEntering(k) # 0 =>
            /\ (positions[k].position = 0) <=> ExitConditionAt(k)
            /\ positions[k].position = 0 =>
                 /\ positions[k].days_held = 0
                 /\ pnl_records[k].cost = CostFormula
            /\ positions[k].position # 0 =>
                 /\ positions[k].position = PositionEntering(k)
                 /\ positions[k].days_held = DaysHeldEntering(k) + 1
                 /\ pnl_records[k].cost = 0
                 /\ k = Len(positions) =>
                      entry_spread = iter.entry_spread_before_update

\* A position held over a date with |signal| = exit_threshold, then closed.
C2_Witness ==
    /\ Len(positions) = 3
    /\ positions[1].position # 0
    /\ positions[2].position # 0
    /\ Abs(positions[2].signal) = config.exit_threshold
    /\ positions[3].position = 0
    /\ config.transaction_cost_bps > 0

\* --------------------------------------------------------------- C3
\* C3: two consecutive records with non-zero positions have equal positions
\* (no direct LONG <-> SHORT change).
C3_NoDirectReversal ==
    \A k \in 2..Len(positions) :
        positions[k - 1].position # 0 /\ positions[k].position # 0
            => positions[k].position = positions[k - 1].position

\* A position kept over a date whose signal is beyond the opposite entry
\* threshold.
C3_Witness ==
    /\ Len(positions) >= 2
    /\ Last(positions).position = 1
    /\ positions[Len(positions) - 1].position = 1
    /\ Last(positions).signal < -config.entry_threshold
    /\ config.entry_threshold > 0

\* --------------------------------------------------------------- C4
\* C4: on a date where an exit fires the recorded position is 0 and only the
\* exit cost is charged, also when the signal exceeds entry_threshold in
\* magnitude; on the next processed date the entry rule applies again.
C4_NoSameDateReentry ==
    /\ Processed /\ iter.position_before_update # 0
         /\ ExitConditionAt(Len(positions)) =>
            /\ Last(positions).position = 0
            /\ iter.entry_cost = 0
            /\ iter.exit_cost = CostFormula
            /\ Last(pnl_records).cost = CostFormula
    /\ \A k \in 2..Len(positions) :
        IsExit(k - 1) =>
            /\ positions[k].signal > config.entry_threshold
                 => positions[k].position = 1
            /\ positions[k].signal < -config.entry_threshold
                 /\ ~(positions[k].signal > config.entry_threshold)
                 => positions[k].position = -1

\* A forced exit while the signal still qualifies, and a re-entry on the next
\* date.
C4_Witness ==
    /\ Len(positions) = 3
    /\ positions[1].position = 1
    /\ positions[2].position = 0
    /\ positions[2].signal > config.entry_threshold
    /\ positions[3].position = 1
    /\ config.transaction_cost_bps > 0

\* --------------------------------------------------------------- C5
\* entry_spread as it stood entering record k: the spread of the latest entry
\* before k (0.0 before the first entry).
RECURSIVE EntrySpreadEntering(_)
EntrySpreadEntering(k) ==
    IF k = 1 THEN 0
    ELSE IF IsEntry(k - 1) THEN positions[k - 1].spread
    ELSE EntrySpreadEntering(k - 1)

\* -p * (spread_t - e) * dv01_per_million * position_size for record k.
AccrualAt(k) ==
    (-PositionEntering(k))
    * (positions[k].spread - EntrySpreadEntering(k))
    * config.dv01_per_million * config.position_size

AccrualRule ==
    /\ \A k \in 1..Len(positions) :
        /\ pnl_records[k].spread_pnl = AccrualAt(k)
        /\ PositionEntering(k) = 0 => pnl_records[k].spread_pnl = 0
    /\ Processed =>
        /\ iter.position_before_update = PositionEntering(Len(positions))
        /\ iter.entry_spread_before_update = EntrySpreadEntering(Len(positions))

SignConvention ==
    \A k \in 1..Len(positions) :
        /\ PositionEntering(k) = 1 =>
             (pnl_records[k].spread_pnl > 0
                <=> positions[k].spread < EntrySpreadEntering(k))
        /\ PositionEntering(k) = -1 =>
             (pnl_records[k].spread_pnl > 0
                <=> positions[k].spread > EntrySpreadEntering(k))

\* C5 as stated: spread_pnl_t = -p * (spread_t - e) * dv01_per_million *
\* position_size with p, e the position and entry_spread entering date t; a
\* LONG has spread_pnl > 0 exactly when spread_t is below its entry spread, a
\* SHORT exactly when it is above.
C5_AccrualAsStated == AccrualRule /\ SignConvention

\* C5 amended: the accrual formula holds for every date; the sign convention
\* holds whenever dv01_per_million > 0.
C5_Accrual == AccrualRule /\ (config.dv01_per_million > 0 => SignConvention)

\* An exit date that still carries the P&L of the closed SHORT position, the
\* spread having widened since the entry.
C5_Witness ==
    /\ Len(positions) = 3
    /\ IsEntry(1) /\ IsExit(3)
    /\ PositionEntering(3) = -1
    /\ positions[3].spread > positions[1].spread
    /\ positions[2].spread = positions[1].spread
    /\ pnl_records[3].spread_pnl > 0
    /\ pnl_records[2].spread_pnl = 0

\* --------------------------------------------------------------- C6
\* C6: on every date entered FLAT on which a position opens, spread_pnl is 0
\* and net_pnl is minus the entry cost.
C6_EntryDayZeroPnl ==
    \A k \in 1..Len(positions) :
        IsEntry(k) =>
            /\ pnl_records[k].spread_pnl = 0
            /\ pnl_records[k].net_pnl = -CostFormula

\* A second entry, at a spread other than the previous trade's entry spread.
C6_Witness ==
    /\ Len(positions) = 3
    /\ IsEntry(1) /\ IsExit(2) /\ IsEntry(3)
    /\ positions[3].spread # positions[1].spread
    /\ config.dv01_per_million > 0
    /\ config.transaction_cost_bps > 0

\* --------------------------------------------------------------- C7
\* C7: on every processed date at most one of entry cost and exit cost is
\* non-zero.
C7_MutualExclusivity ==
    ~(iter.entry_cost # 0 /\ iter.exit_cost # 0)

\* An exit cost charged on a date whose signal qualifies for an entry.
C7_Witness ==
    /\ Processed
    /\ iter.exit_cost # 0
    /\ iter.entry_cost = 0
    /\ Last(positions).signal > config.entry_threshold

\* --------------------------------------------------------------- C8
CostDates == {k \in 1..Len(positions) : pnl_records[k].cost > 0}

ChangeDates ==
    {k \in 1..Len(positions) : positions[k].position # PositionEntering(k)}

\* C8 as stated: the cost of a date is non-zero exactly when an entry or an
\* exit occurs on it, and then equals transaction_cost_bps * position_size *
\* 100; dates with cost > 0 are no more than dates whose position changed.
C8_CostAsStated ==
    /\ \A k \in 1..Len(positions) :
        /\ (pnl_records[k].cost # 0) <=> (IsEntry(k) \/ IsExit(k))
        /\ (IsEntry(k) \/ IsExit(k)) => pnl_records[k].cost = CostFormula
    /\ Cardinality(CostDates) <= Cardinality(ChangeDates)

\* C8 amended: the cost of a date is transaction_cost_bps * position_size *
\* 100 when an entry or an exit occurs on it and 0 otherwise, so it is
\* non-zero exactly on those dates when transaction_cost_bps > 0 (and never
\* when it is 0); dates with cost > 0 are no more than dates whose position
\* changed.
C8_Cost ==
    /\ \A k \in 1..Len(positions) :
        /\ pnl_records[k].cost =
             IF IsEntry(k) \/ IsExit(k) THEN CostFormula ELSE 0
        /\ config.transaction_cost_bps > 0 =>
             ((pnl_records[k].cost # 0) <=> (IsEntry(k) \/ IsExit(k)))
        /\ config.transaction_cost_bps = 0 => pnl_records[k].cost = 0
    /\ Cardinality(CostDates) <= Cardinality(ChangeDates)

\* A run with an entry, a held date and an exit, costs charged on two dates.
C8_Witness ==
    /\ Len(positions) = 3
    /\ IsEntry(1) /\ positions[2].position # 0 /\ IsExit(3)
    /\ CostFormula > 0
    /\ pnl_records[1].cost = CostFormula
    /\ pnl_records[2].cost = 0
    /\ pnl_records[3].cost = CostFormula

\* --------------------------------------------------------------- C9
\* Sum of net_pnl over the first k P&L records.
RECURSIVE NetPnlThrough(_)
NetPnlThrough(k) ==
    IF k = 0 THEN 0 ELSE NetPnlThrough(k - 1) + pnl_records[k].net_pnl

\* C9: for every date net_pnl = spread_pnl - cost, and in the returned ledger
\* cumulative_pnl on date t is the sum of net_pnl from the first date to t.
C9_Decomposition ==
    /\ \A k \in 1..Len(pnl_records) :
        pnl_records[k].net_pnl =
            pnl_records[k].spread_pnl - pnl_records[k].cost
    /\ pc = "done" =>
        /\ Len(pnl_df) = Len(pnl_records)
        /\ \A k \in 1..Len(pnl_df) :
            /\ pnl_df[k].net_pnl = pnl_df[k].spread_pnl - pnl_df[k].cost
            /\ pnl_df[k].net_pnl = pnl_records[k].net_pnl
            /\ pnl_df[k].cumulative_pnl = NetPnlThrough(k)

\* A returned ledger with costs and spread P&L of both signs.
C9_Witness ==
    /\ pc = "done"
    /\ Len(pnl_df) = 3
    /\ pnl_df[1].cost > 0
    /\ pnl_df[2].spread_pnl # 0
    /\ pnl_df[3].cumulative_pnl # pnl_df[2].cumulative_pnl
    /\ pnl_df[2].cumulative_pnl # pnl_df[1].cumulative_pnl

\* --------------------------------------------------------------- C10
\* C10 as stated: with max_holding_days = N set (any N the config accepts),
\* no record has days_held > N while position # 0.
C10_MaxHoldingAsStated ==
    config.max_holding_days # None =>
        \A k \in 1..Len(positions) :
            positions[k].position # 0 =>
                positions[k].days_held <= config.max_holding_days[1]

\* --------------------------------------------------------------- C11
\* The position is open on every date of a 6-date cycle but the last:
\* opened on days 1, 7, 13, ..., closed on days 6, 12, 18, ...; days_held
\* counts 0, 1, 2, 3, 4 over the open dates and is 0 on the closing date.
ForcedExitPattern ==
    \A k \in 1..Len(positions) :
        /\ positions[k].position = IF k % 6 = 0 THEN 0 ELSE 1
        /\ positions[k].days_held = IF k % 6 = 0 THEN 0 ELSE (k % 6) - 1

\* C11 as stated: in the forced-exit scenario the position opens on day 1, is
\* closed on day 6, reopens on day 7, closes on day 12 and so on, days_held
\* restarts from 0 in each cycle, and the run reports n_trades = 6.
C11_ForcedExitAsStated ==
    /\ ForcedExitPattern
    /\ pc = "done" => metadata.n_trades = 6

\* C11 amended: the same cycle, and the run reports n_trades = 5 (the entries
\* of days 1, 7, 13, 19 and 25; a cycle takes 6 dates, so 30 dates hold 5).
C11_ForcedExit ==
    /\ ForcedExitPattern
    /\ pc = "done" => metadata.n_trades = 5

\* The finished 30-date run, closed on day 6, reopened on day 7, closed on
\* day 30.
C11_Witness ==
    /\ pc = "done"
    /\ Len(positions) = 30
    /\ config.max_holding_days = <<5>>
    /\ positions[5].days_held = 4
    /\ positions[6].position = 0
    /\ positions[7].position = 1 /\ positions[7].days_held = 0
    /\ positions[30].position = 0

\* --------------------------------------------------------------- C12
\* C12: in the simple-long scenario the position is +1 on days 1 to 10 and 0
\* from day 11, a cost of 1000 is charged on day 1 and on day 11 and on no
\* other day, spread_pnl is 0 on every day, net_pnl is -1000 on days 1 and 11
\* and 0 elsewhere, and n_trades = 1.
C12_SimpleLong ==
    /\ \A k \in 1..Len(positions) :
        /\ positions[k].position = IF k <= 10 THEN 1 ELSE 0
        /\ pnl_records[k].cost = IF k \in {1, 11} THEN 1000 ELSE 0
        /\ pnl_records[k].spread_pnl = 0
        /\ pnl_records[k].net_pnl = IF k \in {1, 11} THEN -1000 ELSE 0
    /\ pc = "done" => metadata.n_trades = 1

\* The finished 20-date run with its exit on day 11.
C12_Witness ==
    /\ pc = "done"
    /\ Len(positions) = 20
    /\ positions[10].position = 1
    /\ positions[11].position = 0
    /\ pnl_df[11].cost = 1000
    /\ pnl_df[20].cumulative_pnl = -2000

\* --------------------------------------------------------------- C13
\* Every signal so far lies within [-entry_threshold, entry_threshold].
AllWithinBand ==
    \A k \in 1..Len(positions) :
        /\ -config.entry_threshold <= positions[k].signal
        /\ positions[k].signal <= config.entry_threshold

\* C13: when every signal lies within [-entry_threshold, entry_threshold],
\* every record has position 0 and days_held 0, every cost is 0, n_trades is
\* 0, and compute_performance_metrics returns hit_rate = 0, n_trades = 0 and
\* avg_holding_days = 0.
C13_NoSignal ==
    AllWithinBand =>
        /\ \A k \in 1..Len(positions) :
            /\ positions[k].position = 0
            /\ positions[k].days_held = 0
            /\ pnl_records[k].cost = 0
        /\ pc \in {"done", "metrics"} => metadata.n_trades = 0
        /\ pc = "metrics" =>
            /\ metrics.hit_rate.num = 0
            /\ metrics.n_trades = 0
            /\ metrics.avg_holding_days.num = 0
            /\ metrics.trade_pnls = <<>>

\* Metrics returned for a three-date run whose signals touch both ends of the
\* band without leaving it.
C13_Witness ==
    /\ pc = "metrics"
    /\ Len(positions) = 3
    /\ AllWithinBand
    /\ \E k \in 1..3 : positions[k].signal = config.entry_threshold
    /\ \E k \in 1..3 : positions[k].signal = -config.entry_threshold
    /\ metrics.n_trades = 0

\* --------------------------------------------------------------- C14
\* Cost the entry and exit rules charge on record k.
RuleCostAt(k) == IF IsEntry(k) \/ IsExit(k) THEN CostFormula ELSE 0

\* Accrued P&L minus rule costs over the first k dates.
RECURSIVE AccruedThrough(_)
AccruedThrough(k) ==
    IF k = 0 THEN 0
    ELSE AccruedThrough(k - 1) + AccrualAt(k) - RuleCostAt(k)

\* C14: ending the series closes nothing: the returned histories keep the
\* last record as the loop left it (possibly non-flat), cumulative_pnl and
\* total_pnl include the P&L accrued through the last date, and the cost of
\* the last date is non-zero only if an entry or an exit fired on it.
C14_NoForcedClose ==
    pc = "done" =>
        LET n == Len(positions)
        IN /\ Len(pnl_df) = n
           /\ Last(positions).position = current_position
           /\ Last(pnl_df).cost # 0 => (IsEntry(n) \/ IsExit(n))
           /\ Last(pnl_df).cost = RuleCostAt(n)
           /\ Last(pnl_df).spread_pnl = AccrualAt(n)
           /\ Last(pnl_df).cumulative_pnl = AccruedThrough(n)
           /\ metadata.total_pnl = AccruedThrough(n)

\* A finished run whose last record is an open position that accrued P&L on
\* the last date and paid no cost on it.
C14_Witness ==
    /\ pc = "done"
    /\ Last(positions).position # 0
    /\ Len(positions) = 3
    /\ IsEntry(1)
    /\ Last(pnl_df).spread_pnl # 0
    /\ Last(pnl_df).cost = 0
    /\ CostFormula > 0
    /\ metadata.total_pnl # 0

BadConfig(c) ==
    \/ c.entry_threshold <= c.exit_threshold
    \/ c.position_size <= 0
    \/ c.transaction_cost_bps < 0

\* C16: constructing a BacktestConfig fails exactly when entry_threshold <=
\* exit_threshold, position_size <= 0 or transaction_cost_bps < 0 (the code
\* raises ValueError for the spec's ConfigurationError); any other
\* combination constructs, and every config that reaches run_backtest, the
\* default one included, satisfies the three constraints.
C16_ConfigValidation ==
    [][pc = "construct" =>
        /\ pc' = "ConfigError" <=> (config_given /\ BadConfig(config))
        /\ pc' = "validate" <=> ~(config_given /\ BadConfig(config))
        /\ pc' = "validate" => ~BadConfig(config')]_vars

\* A config with equal thresholds and nothing else wrong was rejected, ...
C16_Witness ==
    /\ pc = "ConfigError"
    /\ config.entry_threshold = config.exit_threshold
    /\ config.position_size > 0
    /\ config.transaction_cost_bps >= 0

\* ... and one with a negative entry threshold, a negative holding limit and
\* a zero DV01 was accepted.
C16_WitnessAccepted ==
    /\ pc = "validate"
    /\ config_given
    /\ config.entry_threshold < 0
    /\ config.max_holding_days = <<-1>>
    /\ config.dv01_per_million = 0

\* --------------------------------------------------------------- C17
InputErrors == {"ValueError_composite_signal", "ValueError_spread"}

\* No date has been processed and no part of a result exists.
NothingProduced ==
    /\ t = 0
    /\ positions = <<>>
    /\ pnl_records = <<>>
    /\ pnl_df = <<>>
    /\ metadata = NoMetadata

\* C17: the index checks come before any date is processed; a
\* composite_signal without a DatetimeIndex is reported as such even when the
\* spread is invalid too, a spread without one is reported otherwise (the
\* code raises ValueError, with the argument's name in the message, for the
\* spec's InvalidInputError), and the failed call produces nothing.
C17_EagerValidation ==
    /\ [](pc \in InputErrors \cup {"validate"} => NothingProduced)
    /\ [][pc = "validate" =>
            pc' = IF ~signal_index_ok THEN "ValueError_composite_signal"
                  ELSE IF ~spread_index_ok THEN "ValueError_spread"
                  ELSE "iterate"]_vars
    /\ [][pc \notin InputErrors]_vars

\* Both indexes were invalid and composite_signal was the one reported.
C17_Witness ==
    /\ pc = "ValueError_composite_signal"
    /\ ~signal_index_ok
    /\ ~spread_index_ok

\* --------------------------------------------------------------- C18
\* C18: when no date survives the alignment and the dropping of missing
\* values the call fails (ValueError "No valid data after alignment", the
\* spec's EmptyDataError) and returns nothing; with at least one surviving
\* date it does not fail for this reason.
C18_EmptyData ==
    /\ [](pc = "ValueError_no_valid_data" =>
            /\ positions = <<>>
            /\ pnl_records = <<>>
            /\ pnl_df = <<>>
            /\ metadata = NoMetadata)
    /\ [][pc = "iterate" /\ pc' # "iterate" =>
            pc' = IF Len(positions) = 0 THEN "ValueError_no_valid_data"
                  ELSE "done"]_vars
    /\ [][pc # "ValueError_no_valid_data"]_vars

\* Every date of a two-date series had a missing value and the call failed.
C18_Witness ==
    /\ pc = "ValueError_no_valid_data"
    /\ t = 2

\* --------------------------------------------------------------- C19
\* The two histories hold the same dates, in increasing order, none of them
\* beyond the dates consumed so far.
SameDates ==
    /\ Len(positions) = Len(pnl_records)
    /\ \A k \in 1..Len(positions) :
        /\ positions[k].date = pnl_records[k].date
        /\ positions[k].date <= t
        /\ k > 1 => positions[k - 1].date < positions[k].date

\* C19: each date on which both values are defined adds exactly one record
\* to the position history and one to the P&L ledger, both under that date;
\* a date with a missing value adds none and leaves position, days_held and
\* entry_spread as they were; the ledger returned keeps the dates of the
\* records and the metadata's total_days is their number.
C19_MissingData ==
    /\ [](SameDates)
    /\ [](pc = "done" =>
            /\ Len(pnl_df) = Len(positions)
            /\ \A k \in 1..Len(pnl_df) : pnl_df[k].date = positions[k].date
            /\ metadata.total_days = Len(positions))
    /\ [][t' # t =>
            \/ /\ Len(positions') = Len(positions) + 1
               /\ Len(pnl_records') = Len(pnl_records) + 1
               /\ Last(positions').date = t'
               /\ Last(pnl_records').date = t'
               /\ SubSeq(positions', 1, Len(positions)) = positions
               /\ SubSeq(pnl_records', 1, Len(pnl_records)) = pnl_records
            \/ /\ positions' = positions
               /\ pnl_records' = pnl_records
               /\ current_position' = current_position
               /\ days_held' = days_held
               /\ entry_spread' = entry_spread]_vars

\* A position entered on the first date was carried over a dropped second
\* date: the third date is its first day of holding and two records exist.
C19_Witness ==
    /\ pc = "done"
    /\ t = 3
    /\ Len(positions) = 2
    /\ positions[1].date = 1
    /\ positions[2].date = 3
    /\ positions[1].position # 0
    /\ positions[2].position = positions[1].position
    /\ positions[2].days_held = 1
    /\ metadata.total_days = 2

\* --------------------------------------------------------------- C20
\* C20: in the summary of a finished run n_trades is the number of dates on
\* which the position went from FLAT to non-FLAT (FLAT before the first
\* date), total_pnl is the cumulative_pnl of the last date,
\* avg_pnl_per_trade is total_pnl / n_trades, or 0 when there was no trade,
\* and the echoed config is the config the run used, which is the default
\* config when none was passed.
C20_Summary ==
    pc = "done" =>
        LET n == Cardinality({k \in 1..Len(positions) : IsEntry(k)})
            avg == metadata.avg_pnl_per_trade
        IN /\ metadata.n_trades = n
           /\ metadata.total_pnl = Last(pnl_df).cumulative_pnl
           /\ n > 0 => avg.num * n = metadata.total_pnl * avg.den
           /\ n = 0 => avg.num = 0
           /\ avg.den > 0
           /\ \A f \in DOMAIN config : metadata.config[f] = config[f]
           /\ DOMAIN metadata.config = DOMAIN config
           /\ ~config_given =>
                metadata.config =
                    [entry_threshold |-> 6, exit_threshold |-> 3,
                     position_size |-> 10, transaction_cost_bps |-> 1,
                     max_holding_days |-> <<>>, dv01_per_million |-> 4750]

\* Two entries with an exit in between and a total P&L that is not zero.
C20_Witness ==
    /\ pc = "done"
    /\ config_given
    /\ metadata.n_trades = 2
    /\ positions[2].position = 0
    /\ metadata.total_pnl # 0

\* A finished run that was given no config.
C20_WitnessDefault ==
    /\ pc = "done"
    /\ ~config_given
    /\ metadata.n_trades = 0
    /\ metadata.avg_pnl_per_trade.num = 0

\* --------------------------------------------------------------- C21
\* C21: in the position history days_held is 0 on every FLAT date and on
\* every entry date, and on every later date of the same non-flat run it is
\* the previous record's days_held plus one.
C21_DaysHeld ==
    \A k \in 1..Len(positions) :
        /\ positions[k].position = 0 => positions[k].days_held = 0
        /\ IsEntry(k) => positions[k].days_held = 0
        /\ (positions[k].position # 0 /\ ~IsEntry(k)) =>
            /\ positions[k].position = PositionEntering(k)
            /\ positions[k].days_held = DaysHeldEntering(k) + 1

\* A position entered on the first date and held for two more dates.
C21_Witness ==
    /\ Len(positions) = 3
    /\ IsEntry(1)
    /\ positions[2].position # 0
    /\ positions[2].days_held = 1
    /\ positions[3].position # 0
    /\ positions[3].days_held = 2

\* A second trade opened after the first one was closed.
C21_WitnessReentry ==
    /\ Len(positions) = 3
    /\ IsEntry(1)
    /\ IsExit(2)
    /\ IsEntry(3)
    /\ positions[3].days_held = 0

\* --------------------------------------------------------------- C22
\* The maximal runs of consecutive non-flat dates among the first k records:
\* the net_pnl sums of the runs already ended, and the run in progress.
RECURSIVE RunSums(_)
RunSums(k) ==
    IF k = 0 THEN [closed |-> <<>>, open |-> FALSE, sum |-> 0]
    ELSE LET b == RunSums(k - 1)
             nonflat == positions[k].position # 0
             starts == nonflat /\ positions[k].position # PositionEntering(k)
         IN [closed |-> IF b.open /\ (~nonflat \/ starts)
                        THEN Append(b.closed, b.sum)
                        ELSE b.closed,
             open |-> nonflat,
             sum |-> IF ~nonflat THEN 0
                     ELSE IF starts THEN pnl_df[k].net_pnl
                     ELSE b.sum + pnl_df[k].net_pnl]

\* One net_pnl sum per maximal non-flat run, the run still open at the end
\* included.
AllRunSums ==
    LET r == RunSums(Len(positions))
    IN IF r.open THEN Append(r.closed, r.sum) ELSE r.closed

RECURSIVE NonZero(_)
NonZero(q) ==
    IF Len(q) = 0 THEN <<>>
    ELSE LET front == NonZero(SubSeq(q, 1, Len(q) - 1))
         IN IF Last(q) # 0 THEN Append(front, Last(q)) ELSE front

\* C22: the per-trade P&L list of compute_performance_metrics holds exactly
\* one value for each maximal run of consecutive non-flat dates, runs still
\* open at the end and runs that sum to 0 included, and the value is the sum
\* of net_pnl over the dates of the run.
C22_SegmentationAsStated ==
    pc = "metrics" => metrics.trade_pnls = AllRunSums

\* What the code computes: the run sums that are not 0.
C22_NonZeroRuns ==
    pc = "metrics" => metrics.trade_pnls = NonZero(AllRunSums)

\* --------------------------------------------------------------- C23
\* C23: hit_rate is the number of trades whose summed P&L is > 0 divided by
\* the number of trades, which is n_trades, and 0.0 when there is no trade.
C23_HitRateAsStated ==
    pc = "metrics" =>
        LET n == metrics.n_trades
            wins == Len(Winning(AllRunSums))
        IN /\ n = Len(AllRunSums)
           /\ n = 0 => metrics.hit_rate.num = 0
           /\ n > 0 => metrics.hit_rate.num * n = wins * metrics.hit_rate.den

\* What the code computes: the divisor is the number of non-zero run sums.
C23_HitRateOverNonZero ==
    pc = "metrics" =>
        LET kept == NonZero(AllRunSums)
            wins == Len(Winning(AllRunSums))
        IN /\ Len(kept) = 0 => metrics.hit_rate.num = 0
           /\ Len(kept) > 0 =>
                metrics.hit_rate.num * Len(kept) = wins * metrics.hit_rate.den

\* --------------------------------------------------------------- C24
\* C24: whenever compute_performance_metrics returns, max_drawdown is the
\* minimum over dates of cumulative_pnl minus its running maximum and is
\* <= 0, hit_rate lies in [0, 1], n_trades is a non-negative integer and
\* avg_holding_days is >= 0.
C24_MetricBounds ==
    pc = "metrics" =>
        /\ metrics.max_drawdown <= 0
        /\ \A k \in 1..Len(pnl_df) : \A j \in 1..k :
            metrics.max_drawdown
                <= pnl_df[k].cumulative_pnl - pnl_df[j].cumulative_pnl
        /\ \E k \in 1..Len(pnl_df) : \E j \in 1..k :
            metrics.max_drawdown
                = pnl_df[k].cumulative_pnl - pnl_df[j].cumulative_pnl
        /\ metrics.hit_rate.den > 0
        /\ 0 <= metrics.hit_rate.num
        /\ metrics.hit_rate.num <= metrics.hit_rate.den
        /\ metrics.n_trades \in Nat
        /\ metrics.avg_holding_days.den > 0
        /\ metrics.avg_holding_days.num >= 0

\* Metrics of a ledger with a drawdown, one winning and one losing trade and
\* a day of holding.
C24_Witness ==
    /\ pc = "metrics"
    /\ metrics.max_drawdown < 0
    /\ metrics.hit_rate.num = 1
    /\ metrics.hit_rate.den = 2
    /\ metrics.n_trades = 2
    /\ metrics.avg_holding_days.num > 0

\* --------------------------------------------------------------- C25
\* C25: on a ledger without rows compute_performance_metrics does not fail
\* and returns annualized_return = 0; on a ledger with n_days > 0 rows it
\* returns annualized_return = total_return / (n_days / 252), total_return
\* being the last cumulative_pnl.
C25_EmptyLedgerAsStated ==
    /\ pc # "IndexError"
    /\ pc = "metrics" =>
        LET n_days == Len(pnl_df)
            r == metrics.annualized_return
        IN /\ r.den > 0
           /\ n_days = 0 => r.num = 0
           /\ n_days > 0 =>
                /\ metrics.total_return = Last(pnl_df).cumulative_pnl
                /\ r.num * n_days = metrics.total_return * 252 * r.den

\* The part that holds: every call that returns was given n_days > 0 rows
\* and returns total_return * 252 / n_days.
C25_AnnualizedNonEmpty ==
    pc = "metrics" =>
        LET n_days == Len(pnl_df)
            r == metrics.annualized_return
        IN /\ n_days > 0
           /\ r.den > 0
           /\ metrics.total_return = Last(pnl_df).cumulative_pnl
           /\ r.num * n_days = metrics.total_return * 252 * r.den

\* --------------------------------------------------------------- C26
\* C26: for a result of run_backtest the n_trades of the metadata summary
\* equals the n_trades of compute_performance_metrics, and both equal the
\* number of dates on which the engine charged an entry (a FLAT to non-FLAT
\* transition; with a positive cost rate, a non-flat date with a cost).
C26_TradeCount ==
    pc = "metrics" =>
        /\ metadata.n_trades = metrics.n_trades
        /\ metrics.n_trades
            = Cardinality({k \in 1..Len(positions) : IsEntry(k)})
        /\ config.transaction_cost_bps > 0 =>
            metrics.n_trades
                = Cardinality({k \in 1..Len(positions) :
                    pnl_df[k].cost > 0 /\ positions[k].position # 0})

\* Two round trips, each charged on entry and on exit.
C26_Witness ==
    /\ pc = "metrics"
    /\ config.transaction_cost_bps > 0
    /\ Len(positions) = 4
    /\ IsEntry(1) /\ IsExit(2) /\ IsEntry(3) /\ IsExit(4)
    /\ metrics.n_trades = 2
    /\ metadata.n_trades = 2

\* --------------------------------------------------------------- C27
\* The time exit does not fire on record k: no limit, or the day count of
\* the date stays below it.
BelowLimitAt(k) ==
    \/ config.max_holding_days = None
    \/ DaysHeldEntering(k) + 1 < config.max_holding_days[1]

\* C27: every date recorded non-flat has |signal| >= exit_threshold, and an
\* open position keeps its direction: while LONG (SHORT) and below the
\* max-holding limit, a date whose signal is <= -exit_threshold (>=
\* exit_threshold), beyond the opposite entry threshold or not, leaves the
\* position open and unchanged.
C27_SignBlindHolding ==
    \A k \in 1..Len(positions) :
        /\ positions[k].position # 0 =>
            Abs(positions[k].signal) >= config.exit_threshold
        /\ (PositionEntering(k) = 1 /\ BelowLimitAt(k)
                /\ positions[k].signal <= -config.exit_threshold) =>
            /\ positions[k].position = 1
            /\ pnl_records[k].cost = 0
        /\ (PositionEntering(k) = -1 /\ BelowLimitAt(k)
                /\ positions[k].signal >= config.exit_threshold) =>
            /\ positions[k].position = -1
            /\ pnl_records[k].cost = 0

\* A LONG position met a signal beyond the short entry threshold and stayed
\* LONG.
C27_Witness ==
    /\ Len(positions) >= 2
    /\ config.entry_threshold > 0
    /\ config.exit_threshold > 0
    /\ positions[1].position = 1
    /\ positions[2].signal < -config.entry_threshold
    /\ positions[2].position = 1
    /\ positions[2].days_held = 1

\* --------------------------------------------------------------- C28
\* The entry record of the trade that record x closes or continues.
EntryOf(x) ==
    CHOOSE e \in 1..x :
        /\ IsEntry(e)
        /\ \A j \in (e + 1)..(x - 1) : positions[j].position # 0

RECURSIVE SpreadPnlOver(_, _)
SpreadPnlOver(a, b) ==
    IF a > b THEN 0 ELSE SpreadPnlOver(a, b - 1) + pnl_records[b].spread_pnl

\* -p * (spread_x - s_e) * dv01_per_million * position_size of the trade
\* entered on record e and marked on record x.
RoundTrip(e, x) ==
    (-positions[e].position)
        * (positions[x].spread - positions[e].spread)
        * config.dv01_per_million
        * config.position_size

\* C28: for a position entered on date e and exited on date x the spread_pnl
\* summed over the dates e..x is -p * (spread_x - s_e) * dv01_per_million *
\* position_size (the entry-to-exit move counted once, however long the
\* position was held), and the trade's total net P&L is that amount minus the
\* entry and exit costs.
C28_RoundTripAsStated ==
    \A x \in 1..Len(positions) :
        IsExit(x) =>
            LET e == EntryOf(x)
            IN /\ SpreadPnlOver(e, x) = RoundTrip(e, x)
               /\ NetPnlThrough(x) - NetPnlThrough(e - 1)
                    = RoundTrip(e, x) - 2 * CostFormula

\* What the code computes: each date after the entry is marked from the
\* entry spread, so the exit date alone carries the entry-to-exit move and
\* the sum over e..x adds the move to every date in between.
C28_MarkedFromEntry ==
    \A x \in 1..Len(positions) :
        IsExit(x) =>
            LET e == EntryOf(x)
            IN /\ pnl_records[x].spread_pnl = RoundTrip(e, x)
               /\ \A k \in (e + 1)..x :
                    pnl_records[k].spread_pnl = RoundTrip(e, k)

\* --------------------------------------------------------------- C29
\* Sum of net_pnl over the dates among the first k that are recorded FLAT
\* (the exit dates: other flat dates have net_pnl 0).
RECURSIVE FlatDatePnl(_)
FlatDatePnl(k) ==
    IF k = 0 THEN 0
    ELSE FlatDatePnl(k - 1)
            + (IF positions[k].position = 0 THEN pnl_df[k].net_pnl ELSE 0)

\* C29: every date with a non-zero net_pnl belongs to exactly one trade of
\* compute_performance_metrics, so the per-trade P&L values add up to
\* total_return, the final cumulative_pnl.
C29_AttributionAsStated ==
    pc = "metrics" =>
        /\ metrics.total_return = Last(pnl_df).cumulative_pnl
        /\ SeqSum(metrics.trade_pnls) = metrics.total_return

\* What the code computes: the net_pnl of the dates recorded FLAT, which are
\* the exit dates with their marked move and exit cost, is in no trade.
C29_ExitDatesLeftOut ==
    pc = "metrics" =>
        SeqSum(metrics.trade_pnls)
            = metrics.total_return - FlatDatePnl(Len(positions))

\* --------------------------------------------------------------- C30
EntriesSoFar == Cardinality({k \in 1..Len(positions) : IsEntry(k)})
ExitsSoFar == Cardinality({k \in 1..Len(positions) : IsExit(k)})

RECURSIVE CostThrough(_)
CostThrough(k) ==
    IF k = 0 THEN 0 ELSE CostThrough(k - 1) + pnl_records[k].cost

\* C30: after any prefix of processed dates the number of exits equals the
\* number of entries, or is one less exactly when the current position is
\* non-flat; the cost column sums to transaction_cost_bps * position_size *
\* 100 * (entries + exits); and at the end of the run entries = n_trades.
C30_CostAccounting ==
    /\ current_position = 0 => ExitsSoFar = EntriesSoFar
    /\ current_position # 0 => ExitsSoFar = EntriesSoFar - 1
    /\ CostThrough(Len(pnl_records))
        = config.transaction_cost_bps * config.position_size * 100
            * (EntriesSoFar + ExitsSoFar)
    /\ pc = "done" => metadata.n_trades = EntriesSoFar

\* A finished run with two entries, one exit and costs charged.
C30_Witness ==
    /\ pc = "done"
    /\ EntriesSoFar = 2
    /\ ExitsSoFar = 1
    /\ current_position # 0
    /\ CostThrough(Len(pnl_records)) > 0

====
